---- MODULE Spec2Model ----
(***************************************************************************)
(* Model of TOOLS/gcp_to_aruco_mapper.py: the __main__ block that pairs    *)
(* Ground Control Points with geotagged images (imagery loop, sort by      *)
(* distance, greedy scan, report writing).                                 *)
(*                                                                         *)
(* Abstractions.  A distance is a natural number of meters drawn from      *)
(* Dists; the value calculate_distance returns for a (image, GCP) pair is  *)
(* an input of the run.  A filename is a record [stem, ext].  Python's     *)
(* None is the value None below.  A dict is kept as the sequence of its    *)
(* items in insertion order (the order Python iterates it in).             *)
(***************************************************************************)
EXTENDS Integers, Sequences, FiniteSets, TLC

VARIABLES
    gcps,               \* keys of the dict load_gcps returned, in insertion order
    max_dist,           \* MAX_DISTANCE (args.max_dist)
    listing,            \* os.listdir(args.imagery_path), in the order it is iterated
    fidx,               \* position of the imagery loop in listing
    all_distances,      \* list of (gcp_id, filename, distance)
    idx,                \* position of the greedy scan in all_distances
    best_matches,       \* dict gcp_id -> (filename, distance), as its items in order
    used_images,
    used_gcp,
    potential_matches,  \* dict filename -> (gcp_id, distance)
    ridx,               \* position of the report loop in best_matches
    unmatched_gcps,     \* set(gcps.keys()) - used_gcp, once computed
    todo_unmatched,     \* members of unmatched_gcps the last loop has still to visit
    output,             \* lines this run appended to args.output
    pc,                 \* where the run is
    outfile,            \* content of the file args.output
    readings,           \* what the imagery loop read from each image file so far
    run,                \* 1 in the first run of the tool, 2 in a second run
    \* the path of the coordinates (load_gcps, extract_gps_from_exif, calculate_distance)
    gcp_lines,          \* the lines of the GCP file, each parsed to label, x, y
    lidx,               \* position of load_gcps in gcp_lines
    loaded,             \* the dict load_gcps builds: label -> coords, as its items in order
    image_gps,          \* what extract_gps_from_exif returned for the image
    didx,               \* position of the loop over gcps.items() in loaded
    call,               \* what calculate_distance unpacked from its arguments at the last call
    gpc,                \* where the coordinate path is
    \* gcp_images_picker.py
    rows,               \* the rows of the data file, each the list of its columns
    n_images,           \* N_IMAGES
    pidx,               \* position of the row loop in rows
    ix, iy, im,         \* the column indices of x, y and the marker id (0-based)
    data,               \* the rows kept, each with its distance appended
    selected_data,      \* the rows selected
    written,            \* the rows of the output file
    ppc                 \* where the picker is

vars == << gcps, max_dist, listing, fidx, all_distances, idx, best_matches,
           used_images, used_gcp, potential_matches, ridx, unmatched_gcps,
           todo_unmatched, output, pc, outfile, readings, run,
           gcp_lines, lidx, loaded, image_gps, didx, call, gpc,
           rows, n_images, pidx, ix, iy, im, data, selected_data, written, ppc >>

\* the variables of the matching run, of the coordinate path and of the picker
mapper_vars == << gcps, max_dist, listing, fidx, all_distances, idx, best_matches,
                  used_images, used_gcp, potential_matches, ridx, unmatched_gcps,
                  todo_unmatched, output, pc, outfile, readings, run >>

geo_vars == << gcp_lines, lidx, loaded, image_gps, didx, call, gpc >>

picker_vars == << rows, n_images, pidx, ix, iy, im, data, selected_data, written, ppc >>

(***************************************************************************)
(* Bounds and input domains                                                *)
(***************************************************************************)
MaxGcps == 2
MaxFiles == 2

GcpIds == {0, 1, 2}
Dists == {5, 10, 20, 150}
Thresholds == {20}

None == -1

Files == { [stem |-> "A_1", ext |-> ".jpg"],
           [stem |-> "B_2", ext |-> ".JPG"],
           [stem |-> "notes", ext |-> ".txt"] }

imgA == [stem |-> "A_1", ext |-> ".jpg"]
imgB == [stem |-> "B_2", ext |-> ".JPG"]

\* The EXIF structures image._getexif() can hand back: no container, a
\* container without tag 34853, or a GPS group holding the given keys.
GpsKeys == {1, 2, 3, 4, 6}
ExifInputs ==
    { [exif |-> FALSE, gps |-> FALSE, keys |-> {}],
      [exif |-> TRUE,  gps |-> FALSE, keys |-> {}],
      [exif |-> TRUE,  gps |-> TRUE,  keys |-> GpsKeys],
      [exif |-> TRUE,  gps |-> TRUE,  keys |-> GpsKeys \ {2}],
      [exif |-> TRUE,  gps |-> TRUE,  keys |-> GpsKeys \ {4}],
      [exif |-> TRUE,  gps |-> TRUE,  keys |-> GpsKeys \ {6}],
      [exif |-> TRUE,  gps |-> TRUE,  keys |-> {}] }

\* Sequences without repetition over S, of length at most n.
DistinctSeqs(S, n) ==
    UNION { { s \in [1..k -> S] : \A i, j \in 1..k : i # j => s[i] # s[j] } : k \in 0..n }

Range(s) == { s[i] : i \in 1..Len(s) }

(***************************************************************************)
(* Helpers of the program                                                  *)
(***************************************************************************)
image_extensions == {".jpg", ".jpeg", ".tiff", ".tif", ".dng", ".png", ".webp"}

\* str.lower() on the extensions that occur
Lower(e) == CASE e = ".JPG" -> ".jpg" [] e = ".TXT" -> ".txt" [] OTHER -> e

\* any(filename.lower().endswith(ext) for ext in image_extensions)
IsImage(filename) == Lower(filename.ext) \in image_extensions

\* extract_gps_from_exif: "None" (returns None), "raise" (a KeyError leaves the
\* function) or "position" (returns the tuple).
extract_gps_from_exif(e) ==
    IF ~e.exif \/ ~e.gps THEN "None"
    ELSE IF GpsKeys \subseteq e.keys THEN "position"
    ELSE "raise"

\* variant of Observations: the first GCP of the dict is left out
Observations_skip(ids, filename, dist) ==
    [i \in 1..(Len(ids) - 1) |->
        [gcp_id |-> ids[i + 1], filename |-> filename, distance |-> dist[ids[i + 1]]]]

\* the inner loop over gcps.items(): one observation per GCP, in dict order
RECURSIVE Observations(_, _, _)
Observations(ids, filename, dist) ==
    IF ids = << >> THEN << >>
    ELSE << [gcp_id |-> Head(ids), filename |-> filename, distance |-> dist[Head(ids)]] >>
         \o Observations(Tail(ids), filename, dist)

\* variants of KeyBefore: ties reordered; descending order
KeyBefore_strict(a, b) == a.distance < b.distance

KeyBefore_desc(a, b) == a.distance >= b.distance

\* list.sort(key=lambda x: x[2]) is stable: an element goes behind every
\* element whose key is not larger.
KeyBefore(a, b) == a.distance <= b.distance

RECURSIVE InsertSorted(_, _)
InsertSorted(s, o) ==
    IF s = << >> THEN << o >>
    ELSE IF KeyBefore(s[Len(s)], o) THEN Append(s, o)
    ELSE Append(InsertSorted(SubSeq(s, 1, Len(s) - 1), o), s[Len(s)])

\* variant of SortByDistance: the list is left in generation order
SortByDistance_none(s) == s

RECURSIVE SortByDistance(_)
SortByDistance(s) ==
    IF s = << >> THEN << >>
    ELSE InsertSorted(SortByDistance(SubSeq(s, 1, Len(s) - 1)), s[Len(s)])

\* variant of WithinThreshold: the boundary excluded
WithinThreshold_strict(distance) == distance < max_dist

\* if distance <= MAX_DISTANCE
WithinThreshold(distance) == distance <= max_dist

\* variants of Eligible: the image test dropped; "or" for "and"
Eligible_gcp_only(gcp_id, filename) == gcp_id \notin used_gcp

Eligible_either(gcp_id, filename) == gcp_id \notin used_gcp \/ filename \notin used_images

\* if gcp_id not in used_gcp and filename not in used_images
Eligible(gcp_id, filename) == gcp_id \notin used_gcp /\ filename \notin used_images

\* variant of MarkGcp: the GCP is not recorded as used
MarkGcp_forget(gcp_id) == used_gcp

\* used_gcp.add(gcp_id)
MarkGcp(gcp_id) == used_gcp \cup {gcp_id}

\* used_images.add(filename)
MarkImage(filename) == used_images \cup {filename}

\* variant of PotentialSet: the membership test dropped, a later observation overwrites
PotentialSet_overwrite(o) ==
    (o.filename :> [gcp_id |-> o.gcp_id, distance |-> o.distance]) @@ potential_matches

\* if filename not in potential_matches: potential_matches[filename] = (gcp_id, distance)
PotentialSet(o) ==
    IF o.filename \notin DOMAIN potential_matches
    THEN potential_matches @@ (o.filename :> [gcp_id |-> o.gcp_id, distance |-> o.distance])
    ELSE potential_matches

\* d[k] = v on a dict kept as its items in insertion order
DictSet(d, k, v) ==
    IF \E i \in 1..Len(d) : d[i].gcp_id = k
    THEN [i \in 1..Len(d) |-> IF d[i].gcp_id = k THEN v ELSE d[i]]
    ELSE Append(d, v)

Keys(d) == { d[i].gcp_id : i \in 1..Len(d) }

\* potential_matches.get(closest_image, (None, None))
PotentialGet(filename) ==
    IF filename \in DOMAIN potential_matches THEN potential_matches[filename]
    ELSE [gcp_id |-> None, distance |-> None]

\* truth value of an int-or-None in a Python condition
Truthy(x) == x # None /\ x # 0

\* variant of ConflictCond: the distance comparison reversed
ConflictCond_reversed(potential_gcp, potential_distance, gcp_id, closest_distance) ==
    /\ Truthy(potential_gcp)
    /\ potential_gcp # gcp_id
    /\ potential_distance > closest_distance

\* if potential_gcp and potential_gcp != gcp_id and potential_distance < closest_distance
ConflictCond(potential_gcp, potential_distance, gcp_id, closest_distance) ==
    /\ Truthy(potential_gcp)
    /\ potential_gcp # gcp_id
    /\ potential_distance < closest_distance

MatchLine(e) ==
    [kind |-> "match", gcp_id |-> e.gcp_id, filename |-> e.filename, distance |-> e.distance]

\* variant of ConflictLine: the note names the committed GCP, not the potential one
ConflictLine_self(p, e) ==
    [kind |-> "conflict", gcp_id |-> e.gcp_id, filename |-> e.filename, distance |-> p.distance]

ConflictLine(p, e) ==
    [kind |-> "conflict", gcp_id |-> p.gcp_id, filename |-> e.filename, distance |-> p.distance]

UnmatchedLine(g) == [kind |-> "unmatched", gcp_id |-> g]

\* variant of FileAppend: the file is opened with "w"
FileAppend_truncate(content, line) == << line >>

\* with open(args.output, "a") as file: file.write(line)
FileAppend(content, line) == Append(content, line)

\* The metadata of an image file does not change: a file read before reads the same.
NoGps == [gps |-> "None", dist |-> << >>]
BadGps == [gps |-> "raise", dist |-> << >>]
Position(dist) == [gps |-> "position", dist |-> dist]

CanRead(filename, r) ==
    IF filename \in DOMAIN readings THEN readings[filename] = r ELSE TRUE

Remember(filename, r) ==
    IF filename \in DOMAIN readings THEN readings ELSE readings @@ (filename :> r)

\* variant of Unmatched: the used GCPs are not subtracted
Unmatched_all == Range(gcps)

\* unmatched_gcps = set(gcps.keys()) - used_gcp
Unmatched == Range(gcps) \ used_gcp

(***************************************************************************)
(* The run                                                                 *)
(***************************************************************************)
\* the coordinate path is not followed
GeoIdle ==
    /\ gcp_lines = << >>
    /\ lidx = 1
    /\ loaded = << >>
    /\ image_gps = None
    /\ didx = 1
    /\ call = None
    /\ gpc = "idle"

\* the picker is not run
PickerIdle ==
    /\ rows = << >>
    /\ n_images = 0
    /\ pidx = 1
    /\ ix = 3
    /\ iy = 4
    /\ im = 6
    /\ data = << >>
    /\ selected_data = << >>
    /\ written = << >>
    /\ ppc = "idle"

\* the matching run is not made
MapperIdle ==
    /\ gcps = << >>
    /\ max_dist = 0
    /\ listing = << >>
    /\ fidx = 1
    /\ all_distances = << >>
    /\ idx = 1
    /\ best_matches = << >>
    /\ used_images = {}
    /\ used_gcp = {}
    /\ potential_matches = << >>
    /\ ridx = 1
    /\ unmatched_gcps = {}
    /\ todo_unmatched = {}
    /\ output = << >>
    /\ pc = "idle"
    /\ outfile = << >>
    /\ readings = << >>
    /\ run = 1

Init ==
    /\ GeoIdle
    /\ PickerIdle
    /\ gcps \in DistinctSeqs(GcpIds, MaxGcps)
    /\ max_dist \in Thresholds
    /\ listing \in DistinctSeqs(Files, MaxFiles)
    /\ fidx = 1
    /\ all_distances = << >>
    /\ idx = 1
    /\ best_matches = << >>
    /\ used_images = {}
    /\ used_gcp = {}
    /\ potential_matches = << >>
    /\ ridx = 1
    /\ unmatched_gcps = {}
    /\ todo_unmatched = {}
    /\ output = << >>
    /\ pc = "imagery"
    /\ outfile = << >>
    /\ readings = << >>
    /\ run = 1

\* a directory entry whose extension is not in the allow-list
SkipNotImage ==
    /\ pc = "imagery" /\ fidx <= Len(listing)
    /\ ~IsImage(listing[fidx])
    /\ fidx' = fidx + 1
    /\ UNCHANGED << gcps, max_dist, listing, all_distances, idx, best_matches, used_images,
                    used_gcp, potential_matches, ridx, unmatched_gcps, todo_unmatched,
                    output, pc,
                    outfile, readings, run >>
    /\ UNCHANGED << geo_vars, picker_vars >>

\* an image for which extract_gps_from_exif returns None: continue
ImageNoGps ==
    /\ pc = "imagery" /\ fidx <= Len(listing)
    /\ IsImage(listing[fidx])
    /\ \E e \in ExifInputs : extract_gps_from_exif(e) = "None"
    /\ CanRead(listing[fidx], NoGps)
    /\ readings' = Remember(listing[fidx], NoGps)
    /\ fidx' = fidx + 1
    /\ UNCHANGED << gcps, max_dist, listing, all_distances, idx, best_matches, used_images,
                    used_gcp, potential_matches, ridx, unmatched_gcps, todo_unmatched,
                    output, pc,
                    outfile, run >>
    /\ UNCHANGED << geo_vars, picker_vars >>

\* an image whose GPS group lacks a field: the exception is caught nowhere
ImageMalformed ==
    /\ pc = "imagery" /\ fidx <= Len(listing)
    /\ IsImage(listing[fidx])
    /\ \E e \in ExifInputs : extract_gps_from_exif(e) = "raise"
    /\ CanRead(listing[fidx], BadGps)
    /\ readings' = Remember(listing[fidx], BadGps)
    /\ pc' = "aborted"
    /\ UNCHANGED << gcps, max_dist, listing, fidx, all_distances, idx, best_matches,
                    used_images, used_gcp, potential_matches, ridx, unmatched_gcps,
                    todo_unmatched, output,
                    outfile, run >>
    /\ UNCHANGED << geo_vars, picker_vars >>

\* an image with a position: one observation per GCP
ImageObservations ==
    /\ pc = "imagery" /\ fidx <= Len(listing)
    /\ IsImage(listing[fidx])
    /\ \E e \in ExifInputs : extract_gps_from_exif(e) = "position"
    /\ \E dist \in [Range(gcps) -> Dists] :
          /\ CanRead(listing[fidx], Position(dist))
          /\ readings' = Remember(listing[fidx], Position(dist))
          /\ all_distances' = all_distances \o Observations(gcps, listing[fidx], dist)
    /\ fidx' = fidx + 1
    /\ UNCHANGED << gcps, max_dist, listing, idx, best_matches, used_images, used_gcp,
                    potential_matches, ridx, unmatched_gcps, todo_unmatched, output, pc,
                    outfile, run >>
    /\ UNCHANGED << geo_vars, picker_vars >>

\* the loop is exhausted: sort, then set up the scan
Sort ==
    /\ pc = "imagery" /\ fidx > Len(listing)
    /\ all_distances' = SortByDistance(all_distances)
    /\ best_matches' = << >>
    /\ used_images' = {}
    /\ used_gcp' = {}
    /\ potential_matches' = << >>
    /\ idx' = 1
    /\ pc' = "scan"
    /\ UNCHANGED << gcps, max_dist, listing, fidx, ridx, unmatched_gcps, todo_unmatched,
                    output,
                    outfile, readings, run >>
    /\ UNCHANGED << geo_vars, picker_vars >>

\* one iteration of "for gcp_id, filename, distance in all_distances"
ScanStep ==
    /\ pc = "scan" /\ idx <= Len(all_distances)
    /\ LET o == all_distances[idx]
           within == WithinThreshold(o.distance)
           commit == within /\ Eligible(o.gcp_id, o.filename)
       IN /\ potential_matches' = IF within THEN PotentialSet(o) ELSE potential_matches
          /\ best_matches' = IF commit THEN DictSet(best_matches, o.gcp_id, o)
                             ELSE best_matches
          /\ used_images' = IF commit THEN MarkImage(o.filename) ELSE used_images
          /\ used_gcp' = IF commit THEN MarkGcp(o.gcp_id) ELSE used_gcp
    /\ idx' = idx + 1
    /\ UNCHANGED << gcps, max_dist, listing, fidx, all_distances, ridx, unmatched_gcps,
                    todo_unmatched, output, pc,
                    outfile, readings, run >>
    /\ UNCHANGED << geo_vars, picker_vars >>

ScanEnd ==
    /\ pc = "scan" /\ idx > Len(all_distances)
    /\ ridx' = 1
    /\ pc' = "report"
    /\ UNCHANGED << gcps, max_dist, listing, fidx, all_distances, idx, best_matches,
                    used_images, used_gcp, potential_matches, unmatched_gcps,
                    todo_unmatched, output,
                    outfile, readings, run >>
    /\ UNCHANGED << geo_vars, picker_vars >>

\* one iteration of "for gcp_id, (closest_image, closest_distance) in best_matches.items()"
ReportMatch ==
    /\ pc = "report" /\ ridx <= Len(best_matches)
    /\ LET e == best_matches[ridx]
           p == PotentialGet(e.filename)
       IN IF ConflictCond(p.gcp_id, p.distance, e.gcp_id, e.distance)
          THEN /\ output' = output \o << MatchLine(e), ConflictLine(p, e) >>
               /\ outfile' = FileAppend(FileAppend(outfile, MatchLine(e)), ConflictLine(p, e))
          ELSE /\ output' = Append(output, MatchLine(e))
               /\ outfile' = FileAppend(outfile, MatchLine(e))
    /\ ridx' = ridx + 1
    /\ UNCHANGED << gcps, max_dist, listing, fidx, all_distances, idx, best_matches,
                    used_images, used_gcp, potential_matches, unmatched_gcps,
                    todo_unmatched, pc,
                    readings, run >>
    /\ UNCHANGED << geo_vars, picker_vars >>

ReportEnd ==
    /\ pc = "report" /\ ridx > Len(best_matches)
    /\ unmatched_gcps' = Unmatched
    /\ todo_unmatched' = Unmatched
    /\ pc' = "unmatched"
    /\ UNCHANGED << gcps, max_dist, listing, fidx, all_distances, idx, best_matches,
                    used_images, used_gcp, potential_matches, ridx, output,
                    outfile, readings, run >>
    /\ UNCHANGED << geo_vars, picker_vars >>

\* one iteration of "for gcp_id in unmatched_gcps" (a set: any order)
ReportUnmatched ==
    /\ pc = "unmatched"
    /\ \E g \in todo_unmatched :
          /\ output' = Append(output, UnmatchedLine(g))
          /\ outfile' = FileAppend(outfile, UnmatchedLine(g))
          /\ todo_unmatched' = todo_unmatched \ {g}
    /\ UNCHANGED << gcps, max_dist, listing, fidx, all_distances, idx, best_matches,
                    used_images, used_gcp, potential_matches, ridx, unmatched_gcps, pc,
                    readings, run >>
    /\ UNCHANGED << geo_vars, picker_vars >>

Finish ==
    /\ pc = "unmatched" /\ todo_unmatched = {}
    /\ pc' = "done"
    /\ UNCHANGED << gcps, max_dist, listing, fidx, all_distances, idx, best_matches,
                    used_images, used_gcp, potential_matches, ridx, unmatched_gcps,
                    todo_unmatched, output,
                    outfile, readings, run >>
    /\ UNCHANGED << geo_vars, picker_vars >>

Next ==
    \/ SkipNotImage
    \/ ImageNoGps
    \/ ImageMalformed
    \/ ImageObservations
    \/ Sort
    \/ ScanStep
    \/ ScanEnd
    \/ ReportMatch
    \/ ReportEnd
    \/ ReportUnmatched
    \/ Finish

Spec == Init /\ [][Next]_vars

(***************************************************************************)
(* The tool run twice on the same inputs and output path, the output file  *)
(* holding earlier content                                                 *)
(***************************************************************************)
PriorContent == << MatchLine([gcp_id |-> 1, filename |-> imgA, distance |-> 5]) >>

InitAppend ==
    /\ GeoIdle
    /\ PickerIdle
    /\ gcps \in DistinctSeqs(GcpIds, MaxGcps)
    /\ max_dist \in Thresholds
    /\ listing \in DistinctSeqs(Files, MaxFiles)
    /\ fidx = 1
    /\ all_distances = << >>
    /\ idx = 1
    /\ best_matches = << >>
    /\ used_images = {}
    /\ used_gcp = {}
    /\ potential_matches = << >>
    /\ ridx = 1
    /\ unmatched_gcps = {}
    /\ todo_unmatched = {}
    /\ output = << >>
    /\ pc = "imagery"
    /\ outfile = PriorContent
    /\ readings = << >>
    /\ run = 1

\* the first run has ended; the tool is started again with the same arguments
Rerun ==
    /\ pc = "done" /\ run = 1
    /\ run' = 2
    /\ fidx' = 1
    /\ all_distances' = << >>
    /\ idx' = 1
    /\ best_matches' = << >>
    /\ used_images' = {}
    /\ used_gcp' = {}
    /\ potential_matches' = << >>
    /\ ridx' = 1
    /\ unmatched_gcps' = {}
    /\ todo_unmatched' = {}
    /\ output' = << >>
    /\ pc' = "imagery"
    /\ UNCHANGED << gcps, max_dist, listing, outfile, readings >>
    /\ UNCHANGED << geo_vars, picker_vars >>

NextAppend ==
    \/ SkipNotImage
    \/ ImageNoGps
    \/ ImageMalformed
    \/ ImageObservations
    \/ Sort
    \/ ScanStep
    \/ ScanEnd
    \/ ReportMatch
    \/ ReportEnd
    \/ ReportUnmatched
    \/ Finish
    \/ Rerun

SpecAppend == InitAppend /\ [][NextAppend]_vars

(***************************************************************************)
(* The path of the coordinates: load_gcps, extract_gps_from_exif for one   *)
(* image, and the calls of calculate_distance of lines 128-129.  A         *)
(* coordinate is kept with the axis it measures, so that the order of the  *)
(* components of a tuple can be read off the tuple.                        *)
(***************************************************************************)
MaxLines == 3

\* args.zone
Zone == 15

\* the lines of a GCP file: gcp_id x y (z is not read)
GcpLines == [label : GcpIds, x : {100, 200}, y : {50}]

\* the lines of the file, duplicate ids allowed
SeqsUpTo(S, n) == UNION { [1..k -> S] : k \in 0..n }

\* lon, lat = transform(in_proj, out_proj, x, y); return lat, lon
transform_to_wgs84(x, y, zone) ==
    << [axis |-> "lat", val |-> << x, y, zone >>],
       [axis |-> "lon", val |-> << x, y, zone >>] >>

\* a store that keeps the first value of a key
LoadStore_first(d, label, coords) ==
    IF label \in Keys(d) THEN d ELSE Append(d, [gcp_id |-> label, coords |-> coords])

\* gcps[label] = (lon, lat)
LoadStore(d, label, coords) == DictSet(d, label, [gcp_id |-> label, coords |-> coords])

\* the GPS group of an image: 1 latitude ref, 2 latitude, 3 longitude ref,
\* 4 longitude, 6 altitude; degrees, minutes, seconds
GpsInfos ==
    { (1 :> ns) @@ (2 :> << 42, 1, 30 >>) @@ (3 :> ew) @@ (4 :> << 93, 38, 0 >>) @@ (6 :> 290) :
        ns \in {"N", "S"}, ew \in {"E", "W"} }

\* d + m/60 + s/3600, in seconds of arc
Dms(v) == v[1] * 3600 + v[2] * 60 + v[3]

\* lines 38-47 of extract_gps_from_exif: return longitude, latitude, altitude
gps_position(gps_info) ==
    LET latitude  == IF gps_info[1] = "S" THEN -Dms(gps_info[2]) ELSE Dms(gps_info[2])
        longitude == IF gps_info[3] = "W" THEN -Dms(gps_info[4]) ELSE Dms(gps_info[4])
        altitude  == gps_info[6]
    IN  << [axis |-> "lon", val |-> longitude],
           [axis |-> "lat", val |-> latitude],
           [axis |-> "alt", val |-> altitude] >>

\* lat1, lon1 = coord1[:2]; lat2, lon2 = coord2[:2]
calculate_distance(coord1, coord2) ==
    [lat1 |-> coord1[1], lon1 |-> coord1[2], lat2 |-> coord2[1], lon2 |-> coord2[2]]

InitGeo ==
    /\ MapperIdle
    /\ PickerIdle
    /\ gcp_lines \in SeqsUpTo(GcpLines, MaxLines)
    /\ lidx = 1
    /\ loaded = << >>
    /\ image_gps = None
    /\ didx = 1
    /\ call = None
    /\ gpc = "load"

\* one iteration of the loop of load_gcps
LoadLine ==
    /\ gpc = "load" /\ lidx <= Len(gcp_lines)
    /\ LET line == gcp_lines[lidx]
           t    == transform_to_wgs84(line.x, line.y, Zone)
           lat  == t[1]
           lon  == t[2]
       IN  loaded' = LoadStore(loaded, line.label, << lon, lat >>)
    /\ lidx' = lidx + 1
    /\ UNCHANGED << gcp_lines, image_gps, didx, call, gpc >>
    /\ UNCHANGED << mapper_vars, picker_vars >>

\* return gcps
LoadReturn ==
    /\ gpc = "load" /\ lidx > Len(gcp_lines)
    /\ gpc' = "extract"
    /\ UNCHANGED << gcp_lines, lidx, loaded, image_gps, didx, call >>
    /\ UNCHANGED << mapper_vars, picker_vars >>

\* the image has no GPS group: extract_gps_from_exif returns None, line 126 skips it
ExtractNone ==
    /\ gpc = "extract"
    /\ gpc' = "done"
    /\ UNCHANGED << gcp_lines, lidx, loaded, image_gps, didx, call >>
    /\ UNCHANGED << mapper_vars, picker_vars >>

\* the image has a GPS group
ExtractGps ==
    /\ gpc = "extract"
    /\ \E g \in GpsInfos : image_gps' = gps_position(g)
    /\ gpc' = "distances"
    /\ UNCHANGED << gcp_lines, lidx, loaded, didx, call >>
    /\ UNCHANGED << mapper_vars, picker_vars >>

\* one iteration of the loop of line 128
CallDistance ==
    /\ gpc = "distances" /\ didx <= Len(loaded)
    /\ call' = calculate_distance(image_gps, loaded[didx].coords)
    /\ didx' = didx + 1
    /\ UNCHANGED << gcp_lines, lidx, loaded, image_gps, gpc >>
    /\ UNCHANGED << mapper_vars, picker_vars >>

DistancesEnd ==
    /\ gpc = "distances" /\ didx > Len(loaded)
    /\ gpc' = "done"
    /\ UNCHANGED << gcp_lines, lidx, loaded, image_gps, didx, call >>
    /\ UNCHANGED << mapper_vars, picker_vars >>

NextGeo ==
    \/ LoadLine
    \/ LoadReturn
    \/ ExtractNone
    \/ ExtractGps
    \/ CallDistance
    \/ DistancesEnd

SpecGeo == InitGeo /\ [][NextGeo]_vars

(***************************************************************************)
(* gcp_images_picker.py: the rows of the data file are read, grouped by    *)
(* marker id, and the N_IMAGES rows closest to the image centre are kept   *)
(* for each marker.  A row is the list of its columns; the columns are     *)
(* numbers.  Python indices are 0-based: column i of a row is row[i + 1].  *)
(***************************************************************************)
MaxRows == 3

\* args.image_width, args.image_height
IMAGE_WIDTH == 4

IMAGE_HEIGHT == 4

CENTER_X == IMAGE_WIDTH \div 2

CENTER_Y == IMAGE_HEIGHT \div 2

\* 4-column rows: x y . marker
Rows4 == { << x, 2, 0, m >> : x \in {2, 3}, m \in {1, 2} }

\* 7-column rows: . . . x y . marker
Rows7 == { << 0, 0, 0, x, 2, 0, m >> : x \in {2, 3}, m \in {1, 2} }

\* a row of another length
RowOther == << 1, 1, 1 >>

PickerRows == Rows4 \cup Rows7 \cup {RowOther}

\* args.images_number
ImagesNumbers == {1, 2}

\* row[i]
Col(row, i) == row[i + 1]

\* row[-1]
Last(row) == row[Len(row)]

\* row[:-1]
Front(row) == SubSeq(row, 1, Len(row) - 1)

\* ((x - center_x)**2 + (y - center_y)**2)**0.5, kept as its square: the
\* distances are only compared, and the root keeps the order of the squares
center_distance(x, y, center_x, center_y) ==
    (x - center_x) * (x - center_x) + (y - center_y) * (y - center_y)

\* grouped_data[marker_id].append(row), the dict kept as its items in order
GroupAppend(g, marker_id, row) ==
    IF \E i \in 1..Len(g) : g[i].marker_id = marker_id
    THEN [i \in 1..Len(g) |->
            IF g[i].marker_id = marker_id
            THEN [g[i] EXCEPT !.rows = Append(@, row)] ELSE g[i]]
    ELSE Append(g, [marker_id |-> marker_id, rows |-> << row >>])

\* for row in data: grouped_data[row[im]].append(row)
RECURSIVE grouped_data(_, _)
grouped_data(d, index) ==
    IF d = << >> THEN << >>
    ELSE GroupAppend(grouped_data(Front(d), index), Col(Last(d), index), Last(d))

\* r put behind the rows of s whose last column is not greater
InsertByLast(s, r) ==
    LET n == Cardinality({ i \in 1..Len(s) : Last(s[i]) <= Last(r) })
    IN  SubSeq(s, 1, n) \o << r >> \o SubSeq(s, n + 1, Len(s))

\* sorted(rows, key=itemgetter(-1)): ascending, equal keys in their order
RECURSIVE sorted_rows(_)
sorted_rows(s) ==
    IF s = << >> THEN << >> ELSE InsertByLast(sorted_rows(Front(s)), Last(s))

\* s[:n], for n >= 0
First_n(s, n) == SubSeq(s, 1, IF n < Len(s) THEN n ELSE Len(s))

\* for marker_id, rows in grouped_data.items(): selected_data.extend(sorted_rows[:N_IMAGES])
RECURSIVE Selection(_, _)
Selection(g, n) ==
    IF g = << >> THEN << >>
    ELSE Selection(Front(g), n) \o First_n(sorted_rows(Last(g).rows), n)

InitPicker ==
    /\ MapperIdle
    /\ GeoIdle
    /\ rows \in SeqsUpTo(PickerRows, MaxRows)
    /\ n_images \in ImagesNumbers
    /\ pidx = 1
    /\ ix = 3
    /\ iy = 4
    /\ im = 6
    /\ data = << >>
    /\ selected_data = << >>
    /\ written = << >>
    /\ ppc = "read"

\* a row that has neither 4 nor 7 columns
SkipRow ==
    /\ ppc = "read" /\ pidx <= Len(rows)
    /\ Len(rows[pidx]) # 4 /\ Len(rows[pidx]) # 7
    /\ pidx' = pidx + 1
    /\ UNCHANGED << rows, n_images, ix, iy, im, data, selected_data, written, ppc >>
    /\ UNCHANGED << mapper_vars, geo_vars >>

\* a row of 4 or 7 columns
ReadRow ==
    /\ ppc = "read" /\ pidx <= Len(rows)
    /\ LET row == rows[pidx]
       IN  /\ Len(row) = 4 \/ Len(row) = 7
           /\ ix' = IF Len(row) = 4 THEN 0 ELSE ix
           /\ iy' = IF Len(row) = 4 THEN 1 ELSE iy
           /\ im' = IF Len(row) = 4 THEN 3 ELSE im
           /\ LET x == Col(row, ix')
                  y == Col(row, iy')
                  distance == center_distance(x, y, CENTER_X, CENTER_Y)
              IN  data' = Append(data, Append(row, distance))
    /\ pidx' = pidx + 1
    /\ UNCHANGED << rows, n_images, selected_data, written, ppc >>
    /\ UNCHANGED << mapper_vars, geo_vars >>

\* the file is exhausted
ReadEnd ==
    /\ ppc = "read" /\ pidx > Len(rows)
    /\ ppc' = "select"
    /\ UNCHANGED << rows, n_images, pidx, ix, iy, im, data, selected_data, written >>
    /\ UNCHANGED << mapper_vars, geo_vars >>

\* grouping by row[im] and selection of the first N_IMAGES of each group
Select ==
    /\ ppc = "select"
    /\ selected_data' = Selection(grouped_data(data, im), n_images)
    /\ ppc' = "write"
    /\ UNCHANGED << rows, n_images, pidx, ix, iy, im, data, written >>
    /\ UNCHANGED << mapper_vars, geo_vars >>

\* the selected rows are written without their distance
Write ==
    /\ ppc = "write"
    /\ written' = [i \in 1..Len(selected_data) |-> Front(selected_data[i])]
    /\ ppc' = "done"
    /\ UNCHANGED << rows, n_images, pidx, ix, iy, im, data, selected_data >>
    /\ UNCHANGED << mapper_vars, geo_vars >>

NextPicker ==
    \/ SkipRow
    \/ ReadRow
    \/ ReadEnd
    \/ Select
    \/ Write

SpecPicker == InitPicker /\ [][NextPicker]_vars




(***************************************************************************)
(* Vocabulary of the properties                                            *)
(***************************************************************************)
\* the scan has consumed the whole list
AfterScan == pc \in {"report", "unmatched", "done"}

\* line 166 has run
UnmatchedKnown == pc \in {"unmatched", "done"}

\* all_distances has been sorted
Sorted == pc \in {"scan", "report", "unmatched", "done"}

ObsIdx == 1..Len(all_distances)

InThreshold(o) == o.distance <= max_dist

\* position of x in the sequence s without repetition (0 when absent)
PosIn(s, x) == IF \E i \in 1..Len(s) : s[i] = x
               THEN CHOOSE i \in 1..Len(s) : s[i] = x ELSE 0

\* o was generated before q: images in listing order, GCPs in dict order within an image
GenBefore(o, q) ==
    \/ PosIn(listing, o.filename) < PosIn(listing, q.filename)
    \/ /\ o.filename = q.filename
       /\ PosIn(gcps, o.gcp_id) < PosIn(gcps, q.gcp_id)

Committed(o) == o \in Range(best_matches)

Free(o) == o.gcp_id \notin used_gcp /\ o.filename \notin used_images

----------------------------------------------------------------------------
\* C1 (injectivity): in every state best_matches holds at most one entry per
\* GCP id, and no filename is the value of two different entries.
C1_Injective ==
    \A i, j \in 1..Len(best_matches) :
        i # j => /\ best_matches[i].gcp_id # best_matches[j].gcp_id
                 /\ best_matches[i].filename # best_matches[j].filename

\* two pairs are committed although a within-threshold observation of one of
\* the committed images by the other committed GCP was passed over
C1_Witness ==
    /\ pc = "done"
    /\ Len(best_matches) = 2
    /\ \E k \in ObsIdx : /\ InThreshold(all_distances[k])
                         /\ ~Committed(all_distances[k])

----------------------------------------------------------------------------
\* C2 (threshold): every committed entry has distance <= max_dist; after the
\* scan an observation whose distance equals max_dist was kept as a candidate
\* (its image has a potential match, and its GCP or its image is used); a GCP
\* all of whose observations lie above max_dist is in the unmatched set.
C2_Threshold ==
    /\ \A i \in 1..Len(best_matches) : best_matches[i].distance <= max_dist
    /\ AfterScan =>
          \A k \in ObsIdx :
              all_distances[k].distance = max_dist =>
                  /\ all_distances[k].filename \in DOMAIN potential_matches
                  /\ \/ all_distances[k].gcp_id \in used_gcp
                     \/ all_distances[k].filename \in used_images
    /\ UnmatchedKnown =>
          \A g \in Range(gcps) :
              (\A k \in ObsIdx : all_distances[k].gcp_id = g
                                     => all_distances[k].distance > max_dist)
                  => g \in unmatched_gcps

\* an entry committed at exactly max_dist, and a GCP left unmatched whose only
\* observations lie above the threshold
C2_Witness ==
    /\ pc = "done"
    /\ \E i \in 1..Len(best_matches) : best_matches[i].distance = max_dist
    /\ \E g \in unmatched_gcps :
          /\ \E k \in ObsIdx : all_distances[k].gcp_id = g
          /\ \A k \in ObsIdx : all_distances[k].gcp_id = g
                                   => all_distances[k].distance > max_dist

----------------------------------------------------------------------------
\* C3 (completeness partition): once the unmatched set is computed, it and the
\* keys of best_matches are disjoint and together are the set of loaded GCP ids.
C3_Partition ==
    UnmatchedKnown =>
        /\ Keys(best_matches) \cap unmatched_gcps = {}
        /\ Keys(best_matches) \cup unmatched_gcps = Range(gcps)

\* a run with a matched and an unmatched GCP
C3_Witness ==
    /\ pc = "done"
    /\ Keys(best_matches) # {}
    /\ unmatched_gcps # {}

----------------------------------------------------------------------------
\* C4 (tie-break determinism): the sorted list is ascending in distance and
\* observations of equal distance keep their generation order; when the scan
\* reaches the first, a, of two equal-distance observations a, b that are both
\* still eligible, a is the one generated first, the step commits a and not b,
\* and if they share a GCP or an image b is no longer eligible; an uncommitted
\* observation that is not eligible is never committed later.
C4_SortedStable ==
    Sorted =>
        \A i, j \in ObsIdx :
            i < j => \/ all_distances[i].distance < all_distances[j].distance
                     \/ /\ all_distances[i].distance = all_distances[j].distance
                        /\ GenBefore(all_distances[i], all_distances[j])

C4_FirstCommits ==
    (pc = "scan" /\ idx <= Len(all_distances)) =>
        \A j \in (idx + 1)..Len(all_distances) :
            LET a == all_distances[idx]
                b == all_distances[j]
            IN (/\ a.distance = b.distance
                /\ InThreshold(a)
                /\ Free(a) /\ Free(b))
               => /\ GenBefore(a, b)
                  /\ a \in Range(best_matches')
                  /\ b \notin Range(best_matches')
                  /\ (a.gcp_id = b.gcp_id \/ a.filename = b.filename)
                        => (b.gcp_id \in used_gcp' \/ b.filename \in used_images')

C4_NoLateCommit ==
    \A k \in ObsIdx :
        (Sorted /\ ~Committed(all_distances[k]) /\ ~Free(all_distances[k]))
            => all_distances[k] \notin Range(best_matches')

C4_TieBreak ==
    /\ [](C4_SortedStable)
    /\ [][C4_FirstCommits /\ C4_NoLateCommit]_vars

\* the scan has just committed the first of two equal-distance observations of
\* the same image by two GCPs that were both unused
C4_Witness ==
    /\ pc = "scan" /\ idx > 1 /\ idx <= Len(all_distances)
    /\ LET o == all_distances[idx - 1]
           q == all_distances[idx]
       IN /\ o.distance = q.distance
          /\ o.filename = q.filename
          /\ Committed(o)
          /\ best_matches[Len(best_matches)] = o
          /\ q.gcp_id \notin used_gcp

----------------------------------------------------------------------------
\* the report loop has written a conflict note for the committed pair e
NoteWritten(e) ==
    \E k \in 1..Len(output) : /\ output[k].kind = "conflict"
                              /\ output[k].filename = e.filename

\* C5 (conflict surfacing), as claimed: for every committed pair the report
\* loop has visited, a conflict note is written for it if and only if the
\* image's potential-match entry names another GCP at a strictly smaller
\* distance.  (Violated: a potential GCP with id 0 is falsy at line 161.)
C5_NoteIffCloserOther ==
    (pc \in {"report", "unmatched", "done"}) =>
        \A i \in 1..Len(best_matches) :
            i < ridx =>
                LET e == best_matches[i]
                IN NoteWritten(e) <=>
                      /\ e.filename \in DOMAIN potential_matches
                      /\ potential_matches[e.filename].gcp_id # e.gcp_id
                      /\ potential_matches[e.filename].distance < e.distance

----------------------------------------------------------------------------
\* C6 (per-image local recovery), as claimed: an image with absent or
\* malformed GPS metadata never aborts the run.  (Violated: an exception
\* raised inside extract_gps_from_exif is caught nowhere.)
C6_NeverAborts == pc # "aborted"

----------------------------------------------------------------------------
\* C7 (irrevocable commit): a scan step over an observation within the
\* threshold appends it to best_matches and marks its GCP and image exactly
\* when neither was used, and changes none of the three otherwise; in every
\* step the entries of best_matches stay as they are and in place, and
\* used_gcp and used_images only grow.
C7_Step ==
    /\ (pc = "scan" /\ idx <= Len(all_distances)) =>
          LET o == all_distances[idx]
          IN IF /\ o.distance <= max_dist
                /\ o.gcp_id \notin used_gcp
                /\ o.filename \notin used_images
             THEN /\ best_matches' = Append(best_matches, o)
                  /\ used_gcp' = used_gcp \cup {o.gcp_id}
                  /\ used_images' = used_images \cup {o.filename}
             ELSE /\ best_matches' = best_matches
                  /\ used_gcp' = used_gcp
                  /\ used_images' = used_images
    /\ Len(best_matches') >= Len(best_matches)
    /\ \A i \in 1..Len(best_matches) : best_matches'[i] = best_matches[i]
    /\ used_gcp \subseteq used_gcp'
    /\ used_images \subseteq used_images'

C7_Irrevocable == [][C7_Step]_vars

\* the scan has just passed over a within-threshold observation of a used GCP
\* or image, leaving the earlier commitments in place
C7_Witness ==
    /\ pc = "scan" /\ idx > 1
    /\ best_matches # << >>
    /\ InThreshold(all_distances[idx - 1])
    /\ ~Committed(all_distances[idx - 1])

----------------------------------------------------------------------------
\* C8 (potential-match map): after the scan potential_matches has an entry for
\* exactly the images with an observation within the threshold; the entry is
\* the observation of that image with the least distance, the first in scan
\* order among ties; and in every step a recorded entry stays as it is.
C8_Closest ==
    AfterScan =>
        /\ DOMAIN potential_matches =
              { all_distances[k].filename :
                    k \in { n \in ObsIdx : all_distances[n].distance <= max_dist } }
        /\ \A f \in DOMAIN potential_matches :
              \E k \in ObsIdx :
                  /\ all_distances[k].filename = f
                  /\ all_distances[k].gcp_id = potential_matches[f].gcp_id
                  /\ all_distances[k].distance = potential_matches[f].distance
                  /\ \A j \in ObsIdx :
                        all_distances[j].filename = f =>
                            \/ all_distances[j].distance > all_distances[k].distance
                            \/ /\ all_distances[j].distance = all_distances[k].distance
                               /\ j >= k

C8_Kept ==
    \A f \in DOMAIN potential_matches :
        /\ f \in DOMAIN potential_matches'
        /\ potential_matches'[f] = potential_matches[f]

C8_PotentialMap == [](C8_Closest) /\ [][C8_Kept]_vars

\* an image whose potential match is a GCP that was not matched to it
C8_Witness ==
    /\ pc = "done"
    /\ \E f \in DOMAIN potential_matches :
          /\ f \in used_images
          /\ \A i \in 1..Len(best_matches) :
                best_matches[i].filename = f
                    => best_matches[i].gcp_id # potential_matches[f].gcp_id

----------------------------------------------------------------------------
C9_obsA == [gcp_id |-> 1, filename |-> imgA, distance |-> 20]
C9_obsB == [gcp_id |-> 1, filename |-> imgB, distance |-> 5]

\* G1 is 20 from imageA and 5 from imageB, both within the threshold
C9_Scenario ==
    /\ C9_obsA \in Range(all_distances)
    /\ C9_obsB \in Range(all_distances)
    /\ max_dist >= 20

\* C9 (greedy no-backtrack scenario), as claimed: at the step that commits
\* G1 to imageA at 20 the observation (G1, imageB, 5) is still to be scanned.
\* (Violated: the list is sorted, so it was scanned before.)
C9_Original ==
    (/\ C9_Scenario
     /\ pc = "scan" /\ idx > 1
     /\ all_distances[idx - 1] = C9_obsA
     /\ Committed(C9_obsA))
        => PosIn(all_distances, C9_obsB) >= idx

\* C9 amended: in the sorted list (G1, imageB, 5) stands before
\* (G1, imageA, 20); G1 is matched to imageA at 20 only if imageB belongs to
\* another GCP at distance <= 5, and when imageB does not, G1 ends matched at
\* distance <= 5.
C9_Amended ==
    /\ (Sorted /\ C9_Scenario) =>
          PosIn(all_distances, C9_obsB) < PosIn(all_distances, C9_obsA)
    /\ (C9_Scenario /\ Committed(C9_obsA)) =>
          \E i \in 1..Len(best_matches) :
              /\ best_matches[i].filename = imgB
              /\ best_matches[i].gcp_id # 1
              /\ best_matches[i].distance <= 5
    /\ (/\ AfterScan /\ C9_Scenario
        /\ ~\E i \in 1..Len(best_matches) :
               /\ best_matches[i].filename = imgB
               /\ best_matches[i].gcp_id # 1
               /\ best_matches[i].distance <= 5) =>
          \E i \in 1..Len(best_matches) :
              /\ best_matches[i].gcp_id = 1
              /\ best_matches[i].distance <= 5

\* G1 ends matched to imageA at 20, imageB having gone to another GCP
C9_Witness ==
    /\ pc = "done"
    /\ C9_Scenario
    /\ Committed(C9_obsA)

----------------------------------------------------------------------------
C10_G2B == [gcp_id |-> 2, filename |-> imgB, distance |-> 5]
C10_G2A == [gcp_id |-> 2, filename |-> imgA, distance |-> 5]
C10_G1A == [gcp_id |-> 1, filename |-> imgA, distance |-> 10]
C10_Note == [kind |-> "conflict", gcp_id |-> 2, filename |-> imgA, distance |-> 5]

\* GCPs 1 and 2, images A and B, with the three observations of the scenario
C10_Scenario ==
    /\ pc = "done"
    /\ Range(gcps) = {1, 2}
    /\ {C10_G2B, C10_G2A, C10_G1A} \subseteq Range(all_distances)
    /\ max_dist >= 10

C10_Outcome ==
    /\ imgA \in DOMAIN potential_matches
    /\ potential_matches[imgA] = [gcp_id |-> 2, distance |-> 5]
    /\ IF PosIn(listing, imgB) < PosIn(listing, imgA)
       THEN /\ best_matches = << C10_G2B, C10_G1A >>
            /\ C10_Note \in Range(output)
       ELSE /\ best_matches = << C10_G2A >>
            /\ 1 \in unmatched_gcps
            /\ \A k \in 1..Len(output) : output[k].kind # "conflict"

\* the fourth observation the imagery loop generates, (G1, imageB, d), is
\* above the threshold
C10_G1BOut ==
    \A k \in ObsIdx :
        (all_distances[k].gcp_id = 1 /\ all_distances[k].filename = imgB)
            => all_distances[k].distance > max_dist

\* C10 (conflict detection scenario), as claimed: with the three observations
\* the run ends as described, whichever of A and B is enumerated first.
\* (Violated: the outcome depends on the distance from G1 to imageB.)
C10_Original == C10_Scenario => C10_Outcome

\* C10 amended: with observations (G2,B,5), (G2,A,5), (G1,A,10) under a
\* threshold >= 10 and (G1,B) above the threshold, G2 is committed to whichever
\* of A and B is enumerated first; if that is B, G1 is committed to A and a
\* conflict note naming G2 at 5 is written for A; if that is A, G1 ends
\* unmatched and no note is written; A's potential match is G2 at 5.
C10_Amended == (C10_Scenario /\ C10_G1BOut) => C10_Outcome

\* B is enumerated first and the conflict note for imageA is in the report
C10_Witness ==
    /\ C10_Scenario
    /\ C10_G1BOut
    /\ PosIn(listing, imgB) < PosIn(listing, imgA)
    /\ C10_Note \in Range(output)

----------------------------------------------------------------------------
IsMatchLine(l) == l.kind = "match"

\* C11 (report structure): when the run ends, the match lines of the output
\* are those of the entries of best_matches, in commit order; a conflict note
\* stands directly behind the match line of the same image (so a block holds at
\* most one); every unmatched note stands behind every match line and conflict
\* note; there is exactly one unmatched note per member of unmatched_gcps; and
\* no GCP has both a match line and an unmatched note.
C11_Structure ==
    pc = "done" =>
        /\ SelectSeq(output, IsMatchLine)
              = [i \in 1..Len(best_matches) |-> MatchLine(best_matches[i])]
        /\ \A k \in 1..Len(output) :
              output[k].kind = "conflict" =>
                  /\ k > 1
                  /\ output[k - 1].kind = "match"
                  /\ output[k - 1].filename = output[k].filename
        /\ \A k, l \in 1..Len(output) :
              (output[k].kind = "unmatched" /\ output[l].kind # "unmatched") => l < k
        /\ { output[k].gcp_id : k \in { n \in 1..Len(output) : output[n].kind = "unmatched" } }
              = unmatched_gcps
        /\ Cardinality({ k \in 1..Len(output) : output[k].kind = "unmatched" })
              = Cardinality(unmatched_gcps)
        /\ \A k, l \in 1..Len(output) :
              (output[k].kind = "match" /\ output[l].kind = "unmatched")
                  => output[k].gcp_id # output[l].gcp_id

\* a finished report with two blocks, one of them carrying a conflict note
C11_Witness ==
    /\ pc = "done"
    /\ Len(best_matches) = 2
    /\ \E k \in 1..Len(output) : output[k].kind = "conflict"

----------------------------------------------------------------------------
\* number of occurrences of the line l in the sequence s
Count(s, l) == Cardinality({ k \in 1..Len(s) : s[k] = l })

\* the last n elements of s
Tail_n(s, n) == SubSeq(s, Len(s) - n + 1, Len(s))

\* C12 (append-only report), with the file holding PriorContent before the
\* first run: no step shortens or rewrites the file (its content stays a
\* prefix of the new content); during the first run the file is PriorContent
\* followed by the lines the run has written, during the second run it ends
\* with the lines that run has written, behind at least as much; and when the
\* second run ends every match line it wrote stands in the file twice more
\* often than in PriorContent.
C12_Kept ==
    /\ Len(outfile') >= Len(outfile)
    /\ SubSeq(outfile', 1, Len(outfile)) = outfile

C12_PriorThenRun ==
    /\ run = 1 => outfile = PriorContent \o output
    /\ run = 2 => /\ Len(outfile) >= Len(PriorContent) + Len(output)
                  /\ Tail_n(outfile, Len(output)) = output
    /\ (run = 2 /\ pc = "done") =>
          \A k \in 1..Len(output) :
              output[k].kind = "match" =>
                  Count(outfile, output[k]) = Count(PriorContent, output[k]) + 2

C12_AppendOnly == [](C12_PriorThenRun) /\ [][C12_Kept]_vars

\* the second run has ended and wrote a match line that the file also held
\* before the first run
C12_Witness ==
    /\ run = 2 /\ pc = "done"
    /\ \E k \in 1..Len(output) :
          /\ output[k].kind = "match"
          /\ Count(outfile, output[k]) = 3

----------------------------------------------------------------------------
\* the images for which extract_gps_from_exif returned a position
Positioned == { f \in DOMAIN readings : readings[f].gps = "position" }

\* C14 (observation set): the sorted list holds exactly one observation for
\* every pair of a GCP and an image with a position, and none for any other
\* file; a file without a position is in no entry of best_matches, has no
\* potential match and is named in no line of the output.
C14_ObservationSet ==
    /\ Sorted =>
          /\ { << all_distances[k].gcp_id, all_distances[k].filename >> : k \in ObsIdx }
                = Range(gcps) \X Positioned
          /\ Len(all_distances) = Cardinality(Range(gcps)) * Cardinality(Positioned)
    /\ \A i \in 1..Len(best_matches) : best_matches[i].filename \in Positioned
    /\ DOMAIN potential_matches \subseteq Positioned
    /\ \A k \in 1..Len(output) :
          output[k].kind \in {"match", "conflict"} => output[k].filename \in Positioned

\* a finished run over an image without GPS data and an image that was matched
C14_Witness ==
    /\ pc = "done"
    /\ best_matches # << >>
    /\ \E f \in DOMAIN readings : readings[f].gps = "None"

----------------------------------------------------------------------------
\* the scan step just taken committed the observation it visited
JustCommitted ==
    /\ pc = "scan" /\ idx > 1
    /\ best_matches # << >>
    /\ best_matches[Len(best_matches)] = all_distances[idx - 1]

\* C15 (local minimality at commitment): right after a pair is committed, its
\* distance is the least among the within-threshold observations whose GCP
\* and image were both unconsumed before the commit (so it is least for its
\* GCP over the unconsumed images and for its image over the unconsumed
\* GCPs); and the distances of best_matches are non-decreasing in commit order.
C15_LocalMinimum ==
    /\ JustCommitted =>
          LET o == all_distances[idx - 1]
              gcp_before == used_gcp \ {o.gcp_id}
              images_before == used_images \ {o.filename}
          IN \A k \in ObsIdx :
                (/\ all_distances[k].distance <= max_dist
                 /\ all_distances[k].gcp_id \notin gcp_before
                 /\ all_distances[k].filename \notin images_before)
                    => all_distances[k].distance >= o.distance
    /\ \A i, j \in 1..Len(best_matches) :
          i < j => best_matches[i].distance <= best_matches[j].distance

\* the first pair has just been committed while a farther within-threshold
\* observation was in the list
C15_Witness ==
    /\ JustCommitted
    /\ Len(best_matches) = 1
    /\ \E k \in ObsIdx :
          /\ all_distances[k].distance <= max_dist
          /\ all_distances[k].distance > all_distances[idx - 1].distance

----------------------------------------------------------------------------
\* C17 (maximality): after the scan no observation within the threshold has
\* an unmatched GCP and an image that is the value of no entry of best_matches.
C17_Maximal ==
    AfterScan =>
        \A k \in ObsIdx :
            all_distances[k].distance <= max_dist =>
                \/ all_distances[k].gcp_id \in Keys(best_matches)
                \/ \E i \in 1..Len(best_matches) :
                      best_matches[i].filename = all_distances[k].filename

C17_Unmatched ==
    UnmatchedKnown =>
        \A k \in ObsIdx :
            (all_distances[k].distance <= max_dist
             /\ all_distances[k].gcp_id \in unmatched_gcps)
                => \E i \in 1..Len(best_matches) :
                      /\ best_matches[i].filename = all_distances[k].filename
                      /\ best_matches[i].gcp_id # all_distances[k].gcp_id

C17_Maximality == C17_Maximal /\ C17_Unmatched

\* a GCP ends unmatched although an image was within its threshold: the image
\* went to another GCP
C17_Witness ==
    /\ pc = "done"
    /\ \E k \in ObsIdx :
          /\ all_distances[k].distance <= max_dist
          /\ all_distances[k].gcp_id \in unmatched_gcps

----------------------------------------------------------------------------
\* C18 (conflict notes are truthful): for every conflict note in the output,
\* written for image I and naming GCP P at distance p, best_matches has an
\* entry for P whose image is not I and whose distance is <= p.
C18_Truthful ==
    \A k \in 1..Len(output) :
        output[k].kind = "conflict" =>
            \E i \in 1..Len(best_matches) :
                /\ best_matches[i].gcp_id = output[k].gcp_id
                /\ best_matches[i].filename # output[k].filename
                /\ best_matches[i].distance <= output[k].distance

\* a conflict note names a GCP that was committed to another image at a
\* strictly smaller distance
C18_Witness ==
    /\ pc = "done"
    /\ \E k \in 1..Len(output) :
          /\ output[k].kind = "conflict"
          /\ \E i \in 1..Len(best_matches) :
                /\ best_matches[i].gcp_id = output[k].gcp_id
                /\ best_matches[i].distance < output[k].distance

(***************************************************************************)
(* The coordinate path                                                     *)
(***************************************************************************)
\* the lines load_gcps has consumed
LinesRead == SubSeq(gcp_lines, 1, lidx - 1)

\* the position load_gcps stores for a line
StoredPosition(line) ==
    LET t == transform_to_wgs84(line.x, line.y, Zone) IN << t[2], t[1] >>

\* the last of the lines with that id
LastLine(lines, label) ==
    lines[CHOOSE i \in 1..Len(lines) :
            /\ lines[i].label = label
            /\ \A j \in (i + 1)..Len(lines) : lines[j].label # label]

\* C13 (loader last-write-wins): the keys of the mapping are the ids of the
\* lines read, each id has one entry, and the entry holds the position of the
\* last line read with that id.
C13_LastWriteWins ==
    gpc # "idle" =>
        /\ Keys(loaded) = { LinesRead[i].label : i \in 1..Len(LinesRead) }
        /\ \A i \in 1..Len(loaded) :
              /\ \A j \in 1..Len(loaded) : loaded[j].gcp_id = loaded[i].gcp_id => j = i
              /\ loaded[i].coords = StoredPosition(LastLine(LinesRead, loaded[i].gcp_id))

\* the file is loaded and had two lines of one id at different positions
C13_Witness ==
    /\ gpc = "extract"
    /\ \E i, j \in 1..Len(gcp_lines) :
          /\ i < j
          /\ gcp_lines[i].label = gcp_lines[j].label
          /\ gcp_lines[i].x # gcp_lines[j].x
    /\ Len(loaded) < Len(gcp_lines)

\* C19 (coordinate order): at every call of calculate_distance, what it takes
\* for a latitude is a latitude and what it takes for a longitude is a
\* longitude, for both arguments.
C19_LatitudeFirst ==
    (gpc \in {"distances", "done"} /\ didx > 1) =>
        /\ call.lat1.axis = "lat"
        /\ call.lon1.axis = "lon"
        /\ call.lat2.axis = "lat"
        /\ call.lon2.axis = "lon"

(***************************************************************************)
(* The picker                                                              *)
(***************************************************************************)
\* the marker id of a row by the layout of the row
MarkerOf(row) == IF Len(row) = 4 THEN Col(row, 3) ELSE Col(row, 6)

\* the distance of a row from the centre by the layout of the row
DistanceOf(row) ==
    IF Len(row) = 4
    THEN center_distance(Col(row, 0), Col(row, 1), CENTER_X, CENTER_Y)
    ELSE center_distance(Col(row, 3), Col(row, 4), CENTER_X, CENTER_Y)

\* the rows of s that belong to marker m
OfMarker(s, m) ==
    LET is_m(row) == Len(row) \in {4, 7} /\ MarkerOf(row) = m
    IN  SelectSeq(s, is_m)

\* the n rows of marker m closest to the centre, ties in input order
Closest(m, n) ==
    LET mine   == OfMarker(rows, m)
        keyed  == [i \in 1..Len(mine) |-> Append(mine[i], DistanceOf(mine[i]))]
        chosen == First_n(sorted_rows(keyed), n)
    IN  [i \in 1..Len(chosen) |-> Front(chosen[i])]

\* the two sequences hold the same rows the same number of times
SameRows(a, b) == \A row \in Range(a) \cup Range(b) : Count(a, row) = Count(b, row)

\* the marker ids of the input rows and of the output rows
MarkerIds == { MarkerOf(row) : row \in { r \in Range(rows) \cup Range(written) : Len(r) \in {4, 7} } }

\* C16 (picker top-N per marker): the output holds, for each marker id, the
\* min(N, count) rows of that marker closest to the centre, ties in input order.
C16_TopN ==
    ppc = "done" =>
        \A m \in MarkerIds :
            /\ Len(OfMarker(written, m)) =
                  (IF n_images < Len(OfMarker(rows, m)) THEN n_images ELSE Len(OfMarker(rows, m)))
            /\ SameRows(OfMarker(written, m), Closest(m, n_images))

\* the rows of 4 or 7 columns all have the same number of columns
SameLayout ==
    \A i, j \in 1..Len(rows) :
        (Len(rows[i]) \in {4, 7} /\ Len(rows[j]) \in {4, 7}) => Len(rows[i]) = Len(rows[j])

\* on a file of one layout the selection is the one C16 describes
C16_OneLayout == SameLayout => C16_TopN


====
